---- MODULE Spec2Model ----
(***************************************************************************)
(* A model of the wikibase harvester: the Identifier canonicalizer         *)
(* (src/types/mod.rs), the entity resolver region_by_opt                   *)
(* (src/types/region.rs), the table scanner map_from_table_data            *)
(* (src/map.rs), the per-fact builders that drive them and the             *)
(* territorial-code builder Region::from_html                              *)
(* (src/types/*.rs), the flag download fan-out Flag::from_html             *)
(* (src/types/flag.rs) and the pipeline of main (src/main.rs).             *)
(*                                                                         *)
(* A Rust String is a sequence of one-character strings.  Option<T> is a   *)
(* sequence of length at most one: None is << >>, Some(x) is <<x>>.        *)
(***************************************************************************)
EXTENDS Integers, Sequences, FiniteSets, TLC

VARIABLES
    exonym,      \* Identifier::new: the display name given to it
    exonym2,     \* a second display name, canonicalized beside the first
    ident,       \* Option<Identifier>: Identifier::new(exonym) once computed
    ident2,      \* Option<Identifier>: Identifier::new(exonym2) once computed
    reident,     \* Option<Identifier>: Identifier::new applied to ident
    regions,     \* region_by_opt: BTreeMap<Identifier, Region>, the registry
    countries,   \* region_by_opt: Option<BTreeMap<Identifier, Vec<String>>>
    first,       \* region_by_opt: Option<&String>, first candidate name
    second,      \* region_by_opt: Option<&String>, second candidate name
    resolved,    \* Option<outcome> of the region_by_opt call
    html,        \* map_from_table_data: the document, its tables in order
    collect,     \* map_from_table_data: the Include schema
    table_index_filter,  \* map_from_table_data: Option<&[usize]>
    scanned,     \* Option<outcome> of the map_from_table_data call
    builder,     \* the from_html running: which fact type is being built
    items,       \* the builder's output registry (BTreeMap) so far
    languages,   \* Language::zones_from_html: the &mut language registry
    sovereign_states,  \* Region::from_html: BTreeMap<Identifier, SovereignState>
    row,         \* Option<row>: the row record the builder's loop took last
    outcome,     \* what the loop body did with that row
    nrows,       \* number of row records the loop has taken
    status,      \* "Running", or how from_html ended: "Ok", "Err", "Panic"
    missing,     \* Flag::from_html: the countries asked for, id -> whether
                 \* the document holds an img for the country
    handles,     \* Flag::from_html: the JoinSet, id -> the spawned task
    flags,       \* Flag::from_html: the Vec<Flag> collected at the join
    returned,    \* Option<result> of Flag::from_html: "Ok" or "Err"
    pc,          \* main: the stage and the step of it that comes next
    stage_registry,  \* main: what the registry of the stage holds in memory
    output,      \* main: what this run wrote to each file of output/
    failures,    \* main: the fetches and builders that failed in this run
    run          \* main: "Running", "Exit" (exit(1)) or "Done"

identVars == <<exonym, exonym2, ident, ident2, reident>>
resolveVars == <<regions, countries, first, second, resolved>>
scanVars == <<html, collect, table_index_filter, scanned>>
buildVars == <<builder, items, languages, sovereign_states, row, outcome, nrows, status>>
flagVars == <<missing, handles, flags, returned>>
mainVars == <<pc, stage_registry, output, failures, run>>
vars == <<identVars, resolveVars, scanVars, buildVars, flagVars, mainVars>>

None == << >>
Some(x) == <<x>>
IsSome(o) == Len(o) = 1
IsNone(o) == Len(o) = 0
Unwrap(o) == o[1]

(***************************************************************************)
(* Bounds of the model.                                                    *)
(***************************************************************************)
MaxLen == 3        \* longest display name given to Identifier::new
MaxLen2 == 2       \* longest second display name of a pair
MaxIds == 2        \* Identifiers are 1..MaxIds, in BTreeMap key order
MaxTables == 2     \* most table elements in a document
MaxRows == 2       \* most tr elements in a table
MaxTd == 2         \* most td elements in a tr
MaxCol == 2        \* schema columns are 0..MaxCol-1
MaxTh == 2         \* th counts of tables and schemas are 1..MaxTh
MaxBuildRows == 2  \* most row records a builder's loop takes
MaxSpans == 2      \* most span[lang] elements in a capital's endonym cell

\* The characters display names are made of: a cased letter in both cases,
\* the plain space, a whitespace character that is not the plain space,
\* and the comma and dash that Identifier::new treats specially.
Alphabet == {"A", "a", " ", "\t", ",", "-"}

RECURSIVE StringsUpTo(_)
StringsUpTo(n) ==
    IF n = 0 THEN {<< >>}
    ELSE LET shorter == StringsUpTo(n - 1)
         IN  shorter \cup {Append(s, c) : s \in shorter, c \in Alphabet}

(***************************************************************************)
(* str::trim, str::to_lowercase, str::split(",").next(), str::replace      *)
(***************************************************************************)
\* char::is_whitespace on the model's alphabet
IsWhitespace(c) == c \in {" ", "\t"}

RECURSIVE TrimStart(_)
TrimStart(s) ==
    IF s = << >> \/ ~IsWhitespace(Head(s)) THEN s ELSE TrimStart(Tail(s))

RECURSIVE TrimEnd(_)
TrimEnd(s) ==
    IF s = << >> \/ ~IsWhitespace(s[Len(s)]) THEN s
    ELSE TrimEnd(SubSeq(s, 1, Len(s) - 1))

Trim(s) == TrimEnd(TrimStart(s))

\* char::to_lowercase on the letters A to Z; every other character of the
\* model is its own lowercase
UpperLetters ==
    <<"A", "B", "C", "D", "E", "F", "G", "H", "I", "J", "K", "L", "M", "N", "O", "P", "Q", "R", "S", "T", "U", "V", "W", "X", "Y", "Z">>
LowerLetters ==
    <<"a", "b", "c", "d", "e", "f", "g", "h", "i", "j", "k", "l", "m", "n", "o", "p", "q", "r", "s", "t", "u", "v", "w", "x", "y", "z">>
LowerOf ==
    [u \in {UpperLetters[i] : i \in 1..Len(UpperLetters)} |->
        LowerLetters[CHOOSE i \in 1..Len(UpperLetters) : UpperLetters[i] = u]]
ToLowerChar(c) == IF c \in DOMAIN LowerOf THEN LowerOf[c] ELSE c

ToLowercase(s) == [i \in 1..Len(s) |-> ToLowerChar(s[i])]

\* char::to_uppercase, likewise
UpperOf ==
    [l \in {LowerLetters[i] : i \in 1..Len(LowerLetters)} |->
        UpperLetters[CHOOSE i \in 1..Len(LowerLetters) : LowerLetters[i] = l]]
ToUpperChar(c) == IF c \in DOMAIN UpperOf THEN UpperOf[c] ELSE c
ToUppercase(s) == [i \in 1..Len(s) |-> ToUpperChar(s[i])]

\* s.split(d).next(): the text before the first d, all of s without one
RECURSIVE SplitFirst(_, _)
SplitFirst(s, d) ==
    IF s = << >> \/ Head(s) = d THEN << >>
    ELSE <<Head(s)>> \o SplitFirst(Tail(s), d)

\* s.replace(from, to) for one-character patterns
Replace(s, from, to) == [i \in 1..Len(s) |-> IF s[i] = from THEN to ELSE s[i]]

\* A slip: the comma is cut before the whitespace is trimmed.
IdentifierNewCutFirst(name) ==
    LET id == SplitFirst(name, ",")
        lc == ToLowercase(Trim(id))
        spaceless == Replace(lc, " ", "_")
    IN  Replace(spaceless, "-", "_")

\* Identifier::new
IdentifierNew(name) ==
    LET lc == ToLowercase(Trim(name))
        id == SplitFirst(lc, ",")
        spaceless == Replace(id, " ", "_")
    IN  Replace(spaceless, "-", "_")

(***************************************************************************)
(* Canonicalizing one name, a second one, and the first one's Identifier   *)
(***************************************************************************)
InitIdent ==
    /\ exonym \in StringsUpTo(MaxLen)
    /\ exonym2 = << >>
    /\ ident = None
    /\ ident2 = None
    /\ reident = None

InitIdentPair ==
    /\ exonym \in StringsUpTo(MaxLen)
    /\ exonym2 \in StringsUpTo(MaxLen2)
    /\ ident = None
    /\ ident2 = None
    /\ reident = None

Canonicalize ==
    /\ IsNone(ident)
    /\ ident' = Some(IdentifierNew(exonym))
    /\ UNCHANGED <<exonym, exonym2, ident2, reident, resolveVars, scanVars, buildVars, flagVars, mainVars>>

CanonicalizeSecond ==
    /\ IsNone(ident2)
    /\ ident2' = Some(IdentifierNew(exonym2))
    /\ UNCHANGED <<exonym, exonym2, ident, reident, resolveVars, scanVars, buildVars, flagVars, mainVars>>

CanonicalizeAgain ==
    /\ IsSome(ident)
    /\ IsNone(reident)
    /\ reident' = Some(IdentifierNew(Unwrap(ident)))
    /\ UNCHANGED <<exonym, exonym2, ident, ident2, resolveVars, scanVars, buildVars, flagVars, mainVars>>

(***************************************************************************)
(* Claims about Identifier::new                                            *)
(***************************************************************************)
Min(S) == CHOOSE x \in S : \A y \in S : x <= y
Max(S) == CHOOSE x \in S : \A y \in S : x >= y

\* C1: Identifier::new is idempotent: canonicalizing the Identifier of any
\* display name again gives the same Identifier.
C1_Idempotent == IsSome(reident) => reident = ident

\* What the steps of the contract give for one character that is kept.
C2_KeptChar(c) == IF c \in {" ", "-"} THEN "_" ELSE ToLowerChar(c)

\* The contract of C2 read position by position: of the name without its
\* surrounding whitespace, the characters before the first comma, each
\* lowercased, with '_' for every space and every dash.
C2_Contract(s) ==
    LET solid == {i \in 1..Len(s) : ~IsWhitespace(s[i])}
        lo == IF solid = {} THEN 1 ELSE Min(solid)
        hi == IF solid = {} THEN 0 ELSE Max(solid)
        commas == {i \in lo..hi : s[i] = ","}
        cut == IF commas = {} THEN hi ELSE Min(commas) - 1
    IN  [n \in 1..(cut - lo + 1) |-> C2_KeptChar(s[lo + n - 1])]

\* C2: for every display name Identifier::new returns a value, and it is
\* exactly trim, lowercase, cut at the first comma, spaces to '_', dashes
\* to '_', in this order, with no other character changed.
C2_FixedOrderSteps ==
    /\ IsSome(ident) => Unwrap(ident) = C2_Contract(exonym)
    /\ IsNone(ident) => ENABLED Canonicalize

\* C2's case: a name in which lowercasing and both replacements act.
C2_Witness ==
    /\ exonym = <<"A", " ", "-">>
    /\ ident = Some(<<"a", "_", "_">>)

\* C3: two display names that are equal, ignoring case, up to their first
\* comma (or their end) have the same Identifier.
C3_CommaCollision ==
    (/\ IsSome(ident)
     /\ IsSome(ident2)
     /\ ToLowercase(SplitFirst(exonym, ",")) = ToLowercase(SplitFirst(exonym2, ",")))
    => ident = ident2

(***************************************************************************)
(* The entity resolver: region_by_opt and try_opt                          *)
(***************************************************************************)
Ids == 1..MaxIds

\* Region.name and Region.state_name of the registry's entries
RegionNames == {<<"A">>, <<"b">>}
\* Candidate display names: one differing in case from a registry name, one
\* with whitespace around it, one that is no registry name
CandidateNames == {<<"a">>, <<"B", " ">>, <<"c">>}
\* Names of the alias table
AliasNames == {<<"C">>, <<"a">>}
AliasLists == {<< >>} \cup {<<n>> : n \in AliasNames}

RegionSet == [name : RegionNames, state_name : RegionNames]
Registries == UNION {[D -> RegionSet] : D \in SUBSET Ids}
AliasTables == UNION {[D -> AliasLists] : D \in SUBSET Ids}
OptionOf(S) == {None} \cup {Some(x) : x \in S}

\* A slip: a name listed as an alias wins over a name field.
TryOptAliasFirst(opt, aliases, registry) ==
    IF IsNone(opt) THEN None
    ELSE
        LET c == ToLowercase(Trim(Unwrap(opt)))
            byName == {i \in DOMAIN registry :
                          \/ ToLowercase(registry[i].name) = c
                          \/ ToLowercase(registry[i].state_name) = c}
            m == IF IsSome(aliases) THEN Unwrap(aliases) ELSE << >>
            byAlias == {i \in DOMAIN m :
                           \E k \in 1..Len(m[i]) : ToLowercase(m[i][k]) = c}
        IN  IF byAlias # {} /\ Min(byAlias) \in DOMAIN registry
            THEN Some([id |-> Min(byAlias), region |-> registry[Min(byAlias)]])
            ELSE IF byName # {}
            THEN Some([id |-> Min(byName), region |-> registry[Min(byName)]])
            ELSE None

\* A slip: an alias hit is returned under the alias table's Identifier
\* without regions.get: the entity is the registry's first.
TryOptAliasUnchecked(opt, aliases, registry) ==
    IF IsNone(opt) THEN None
    ELSE
        LET c == ToLowercase(Trim(Unwrap(opt)))
            byName == {i \in DOMAIN registry :
                          \/ ToLowercase(registry[i].name) = c
                          \/ ToLowercase(registry[i].state_name) = c}
        IN  IF byName # {}
            THEN Some([id |-> Min(byName), region |-> registry[Min(byName)]])
            ELSE IF IsNone(aliases) THEN None
            ELSE
                LET m == Unwrap(aliases)
                    byAlias == {i \in DOMAIN m :
                                   \E k \in 1..Len(m[i]) : ToLowercase(m[i][k]) = c}
                IN  IF byAlias = {} \/ DOMAIN registry = {} THEN None
                    ELSE Some([id |-> Min(byAlias),
                               region |-> registry[Min(DOMAIN registry)]])

\* try_opt: iter().find() on a BTreeMap gives the first entry in key order.
TryOpt(opt, aliases, registry) ==
    IF IsNone(opt) THEN None
    ELSE
        LET c == ToLowercase(Trim(Unwrap(opt)))
            byName == {i \in DOMAIN registry :
                          \/ ToLowercase(registry[i].name) = c
                          \/ ToLowercase(registry[i].state_name) = c}
        IN  IF byName # {}
            THEN Some([id |-> Min(byName), region |-> registry[Min(byName)]])
            ELSE IF IsNone(aliases) THEN None
            ELSE
                LET m == Unwrap(aliases)
                    byAlias == {i \in DOMAIN m :
                                   \E k \in 1..Len(m[i]) : ToLowercase(m[i][k]) = c}
                IN  IF byAlias = {} THEN None
                    ELSE IF Min(byAlias) \in DOMAIN registry
                    THEN Some([id |-> Min(byAlias), region |-> registry[Min(byAlias)]])
                    ELSE None

\* A slip: no search term is reported as an error value, like a miss.
RegionByOptErrOnNone(registry, aliases, fst, snd) ==
    LET t1 == TryOpt(fst, aliases, registry)
        t2 == TryOpt(snd, aliases, registry)
    IN  IF IsSome(t1) THEN [kind |-> "Ok", found |-> t1]
        ELSE IF IsSome(t2) THEN [kind |-> "Ok", found |-> t2]
        ELSE [kind |-> "Err", found |-> None]

\* region_by_opt: Ok((Identifier, Region)), Err (bail!) or a panic
RegionByOpt(registry, aliases, fst, snd) ==
    LET t1 == TryOpt(fst, aliases, registry)
        t2 == TryOpt(snd, aliases, registry)
    IN  IF IsSome(t1) THEN [kind |-> "Ok", found |-> t1]
        ELSE IF IsSome(t2) THEN [kind |-> "Ok", found |-> t2]
        ELSE IF IsSome(fst) /\ IsSome(snd) THEN [kind |-> "Err", found |-> None]
        ELSE IF IsSome(fst) THEN [kind |-> "Err", found |-> None]
        ELSE IF IsSome(snd) THEN [kind |-> "Err", found |-> None]
        ELSE [kind |-> "Panic", found |-> None]

InitIdentIdle ==
    /\ exonym = << >>
    /\ exonym2 = << >>
    /\ ident = None
    /\ ident2 = None
    /\ reident = None

InitResolveIdle ==
    /\ regions = << >>
    /\ countries = None
    /\ first = None
    /\ second = None
    /\ resolved = None

InitResolve ==
    /\ regions \in Registries
    /\ countries \in OptionOf(AliasTables)
    /\ first \in OptionOf(CandidateNames)
    /\ second \in OptionOf(CandidateNames)
    /\ resolved = None

Resolve ==
    /\ IsNone(resolved)
    /\ resolved' = Some(RegionByOpt(regions, countries, first, second))
    /\ UNCHANGED <<regions, countries, first, second, identVars, scanVars, buildVars, flagVars, mainVars>>

(***************************************************************************)
(* Claims about the resolver.  A candidate matches an entity when it       *)
(* equals, ignoring case and its surrounding whitespace, one of the        *)
(* entity's two name fields, or an alias the table lists under the         *)
(* entity's Identifier.                                                    *)
(***************************************************************************)
SameName(c, n) == ToLowercase(Trim(c)) = ToLowercase(n)

MatchesByName(c, i) ==
    /\ i \in DOMAIN regions
    /\ SameName(c, regions[i].name) \/ SameName(c, regions[i].state_name)

ListsAlias(c, i) ==
    /\ IsSome(countries)
    /\ i \in DOMAIN Unwrap(countries)
    /\ \E k \in 1..Len(Unwrap(countries)[i]) : SameName(c, Unwrap(countries)[i][k])

MatchesByAlias(c, i) == i \in DOMAIN regions /\ ListsAlias(c, i)

Matches(c, i) == MatchesByName(c, i) \/ MatchesByAlias(c, i)

\* The candidate is supplied and matches some entity of the registry.
Hits(opt) == IsSome(opt) /\ \E i \in Ids : Matches(Unwrap(opt), i)
HitsByName(opt) == IsSome(opt) /\ \E i \in Ids : MatchesByName(Unwrap(opt), i)
\* The candidate matches no name field, but an alias of a registry key.
HitsByAliasOnly(opt) ==
    /\ IsSome(opt)
    /\ ~HitsByName(opt)
    /\ \E i \in Ids : MatchesByAlias(Unwrap(opt), i)

Returned == Unwrap(resolved).found[1]
ReturnedOk == Unwrap(resolved).kind = "Ok"

\* C4: first_name is tried completely before second_name: when first_name
\* matches an entity by name field or by alias the returned entity is one
\* it matches; second_name decides only when first_name is absent or
\* matches nothing; a name-field match of a candidate wins over its alias
\* match.
C4_FirstHitWins ==
    IsSome(resolved) =>
        /\ Hits(first) => ReturnedOk /\ Matches(Unwrap(first), Returned.id)
        /\ HitsByName(first) =>
               ReturnedOk /\ MatchesByName(Unwrap(first), Returned.id)
        /\ (~Hits(first) /\ Hits(second)) =>
               ReturnedOk /\ Matches(Unwrap(second), Returned.id)
        /\ (~Hits(first) /\ HitsByName(second)) =>
               ReturnedOk /\ MatchesByName(Unwrap(second), Returned.id)

\* C5: a candidate that matches no name field but is an alias listed under
\* at least one Identifier of the registry resolves, to an entry whose
\* Identifier lists the alias, also when another Identifier outside the
\* registry lists the same alias.
C5_AliasStep ==
    IsSome(resolved) =>
        /\ HitsByAliasOnly(first) =>
               ReturnedOk /\ MatchesByAlias(Unwrap(first), Returned.id)
        /\ (~Hits(first) /\ HitsByAliasOnly(second)) =>
               ReturnedOk /\ MatchesByAlias(Unwrap(second), Returned.id)

\* C6 as claimed: with neither name supplied the resolver returns an error
\* value to its caller.
C6_ErrorValueReturned ==
    (IsSome(resolved) /\ IsNone(first) /\ IsNone(second))
    => Unwrap(resolved).kind = "Err"

\* C6: with neither name supplied the resolver returns nothing to its
\* caller, neither an entity nor an error value: it panics, whatever the
\* registry and the alias table hold.
C6_PanicsWithoutNames ==
    (IsSome(resolved) /\ IsNone(first) /\ IsNone(second))
    => Unwrap(resolved).kind = "Panic"

\* C6's case: the resolver was called without a name on a registry that
\* holds entities.
C6_Witness ==
    /\ IsSome(resolved)
    /\ IsNone(first)
    /\ IsNone(second)
    /\ DOMAIN regions # {}
    /\ IsSome(countries)

\* C7: with at least one candidate supplied, the resolver returns NotFound
\* exactly when no supplied candidate matches a name field or an alias of
\* an Identifier of the registry, and an entity otherwise.
C7_NotFoundExactly ==
    (IsSome(resolved) /\ (IsSome(first) \/ IsSome(second))) =>
        /\ Unwrap(resolved).kind = "Err" <=> (~Hits(first) /\ ~Hits(second))
        /\ Unwrap(resolved).kind \in {"Err", "Ok"}

(***************************************************************************)
(* The table scanner: map_from_table_data                                  *)
(*                                                                         *)
(* A document is the sequence of its table elements in document order; a   *)
(* table is its th count and, for each of its tr elements in order, the    *)
(* td count of the row.  A Found value refers to the cell it was taken     *)
(* from, <<table, row, td_index>>, as the ElementRef of the code does.     *)
(* Tables nested in tables are not modelled.                               *)
(***************************************************************************)
Matching(css) == [select |-> "Matching", css |-> css]
InnerAsText == [select |-> "InnerAsText", css |-> ""]
TdElement == [select |-> "TdElement", css |-> ""]

\* Selector::parse succeeds on the selectors the builders use
SelectorParses(css) == css \in {"a", "a > span", "code", "span[lang]"}

Selects == {Matching("a"), Matching("a >"), InnerAsText, TdElement}
Columns == 0..(MaxCol - 1)

RECURSIVE SeqsUpTo(_, _)
SeqsUpTo(S, n) ==
    IF n = 0 THEN {<< >>}
    ELSE LET shorter == SeqsUpTo(S, n - 1)
         IN  shorter \cup {Append(q, x) : q \in shorter, x \in S}

Tables == [th : 1..MaxTh, trs : SeqsUpTo(0..MaxTd, MaxRows)]
Documents == SeqsUpTo(Tables, MaxTables)

\* Include::All{th_count, td_map} and Include::Some{th_count, td_map}
IncludeAll ==
    [include : {"All"}, th_count : 1..MaxTh,
     td_map : UNION {[D -> Selects] : D \in SUBSET Columns}]
IncludeSome ==
    [include : {"Some"}, th_count : 1..MaxTh,
     td_map : UNION {[D -> OptionOf(Selects)] : D \in SUBSET Columns}]

\* A slip: every row is taken, whatever its td count.
RowAcceptedAny(ntd, schema) == TRUE

\* The row filter: td count == td_map.len() under All, >= the number of
\* columns with a rule under Some
RowAccepted(ntd, schema) ==
    IF schema.include = "All"
    THEN ntd = Cardinality(DOMAIN schema.td_map)
    ELSE ntd >= Cardinality({c \in DOMAIN schema.td_map : IsSome(schema.td_map[c])})

\* A slip: every table is taken, whatever its th count.
TableQualifiesAny(table, schema) == TRUE

\* The th count of the table is the schema's th_count
TableQualifies(table, schema) == table.th = schema.th_count

\* The rule of a td: "Rule" with the Select, "Skip" (continue) or "Panic"
RuleOf(td_index, schema) ==
    IF schema.include = "All"
    THEN IF td_index \in DOMAIN schema.td_map
         THEN [kind |-> "Rule", rule |-> schema.td_map[td_index]]
         ELSE [kind |-> "Panic", rule |-> TdElement]
    ELSE IF td_index \in DOMAIN schema.td_map /\ IsSome(schema.td_map[td_index])
         THEN [kind |-> "Rule", rule |-> Unwrap(schema.td_map[td_index])]
         ELSE [kind |-> "Skip", rule |-> TdElement]

\* What a rule stores for a cell
FoundBy(rule, cell) ==
    CASE rule.select = "Matching" -> [found |-> "Children", cell |-> cell]
      [] rule.select = "InnerAsText" -> [found |-> "InnerText", cell |-> cell]
      [] rule.select = "TdElement" -> [found |-> "Parent", cell |-> cell]

\* The loop over the td elements of one accepted row, from td_index on
RECURSIVE ScrapeRow(_, _, _, _, _, _)
ScrapeRow(t, r, td_index, ntd, schema, scraped) ==
    IF td_index >= ntd THEN [kind |-> "Ok", scraped |-> scraped]
    ELSE
        LET got == RuleOf(td_index, schema)
        IN  CASE got.kind = "Panic" -> [kind |-> "Panic", scraped |-> << >>]
              [] got.kind = "Skip" ->
                    ScrapeRow(t, r, td_index + 1, ntd, schema, scraped)
              [] got.kind = "Rule" ->
                    IF got.rule.select = "Matching" /\ ~SelectorParses(got.rule.css)
                    THEN [kind |-> "Err", scraped |-> << >>]
                    ELSE ScrapeRow(t, r, td_index + 1, ntd, schema,
                             scraped @@ (td_index :> FoundBy(got.rule, <<t, r, td_index>>)))

\* The loop over the tr elements of one qualifying table, from row r on
RECURSIVE ScrapeRows(_, _, _, _, _)
ScrapeRows(t, r, table, schema, elements) ==
    IF r > Len(table.trs) THEN [kind |-> "Ok", elements |-> elements]
    ELSE IF ~RowAccepted(table.trs[r], schema)
    THEN ScrapeRows(t, r + 1, table, schema, elements)
    ELSE
        LET table_row == ScrapeRow(t, r, 0, table.trs[r], schema, << >>)
        IN  IF table_row.kind # "Ok" THEN [kind |-> table_row.kind, elements |-> << >>]
            ELSE ScrapeRows(t, r + 1, table, schema, Append(elements, table_row.scraped))

\* The loop over the tables of the document, from table t on (table_i = t-1)
RECURSIVE ScrapeTables(_, _, _, _, _)
ScrapeTables(t, doc, schema, filter, elements) ==
    IF t > Len(doc) THEN [kind |-> "Ok", elements |-> elements]
    ELSE IF IsSome(filter) /\ (t - 1) \notin Unwrap(filter)
    THEN ScrapeTables(t + 1, doc, schema, filter, elements)
    ELSE IF ~TableQualifies(doc[t], schema)
    THEN ScrapeTables(t + 1, doc, schema, filter, elements)
    ELSE
        LET rows == ScrapeRows(t, 1, doc[t], schema, elements)
        IN  IF rows.kind # "Ok" THEN rows
            ELSE ScrapeTables(t + 1, doc, schema, filter, rows.elements)

\* A slip: a document without tables gives no records and no error.
MapFromTableDataNoTableCheck(doc, schema, filter) ==
    ScrapeTables(1, doc, schema, filter, << >>)

\* map_from_table_data: Ok(elements), Err (bail!, or ? on a selector) or a
\* panic
MapFromTableData(doc, schema, filter) ==
    IF Len(doc) = 0 THEN [kind |-> "Err", elements |-> << >>]
    ELSE ScrapeTables(1, doc, schema, filter, << >>)

InitScanIdle ==
    /\ html = << >>
    /\ collect = [include |-> "All", th_count |-> 1, td_map |-> << >>]
    /\ table_index_filter = None
    /\ scanned = None

InitScan ==
    /\ html \in Documents
    /\ collect \in IncludeAll \cup IncludeSome
    /\ table_index_filter \in {None, Some({1})}
    /\ scanned = None

Scan ==
    /\ IsNone(scanned)
    /\ scanned' = Some(MapFromTableData(html, collect, table_index_filter))
    /\ UNCHANGED <<html, collect, table_index_filter, identVars, resolveVars, buildVars, flagVars, mainVars>>

(***************************************************************************)
(* Claims about the scanner                                                *)
(***************************************************************************)
ScanResult == Unwrap(scanned)

\* The table passes the index filter and has the required th count.
TableTaken(t) ==
    /\ IsNone(table_index_filter) \/ (t - 1) \in Unwrap(table_index_filter)
    /\ html[t].th = collect.th_count

RuledColumns ==
    IF collect.include = "All" THEN DOMAIN collect.td_map
    ELSE {c \in DOMAIN collect.td_map : IsSome(collect.td_map[c])}

\* The row's td count fits the schema.
RowTaken(t, r) ==
    IF collect.include = "All"
    THEN html[t].trs[r] = Cardinality(DOMAIN collect.td_map)
    ELSE html[t].trs[r] >= Cardinality(RuledColumns)

\* The td cells the scan visits, <<table, row, td_index>>
VisitedCells ==
    {x \in (1..Len(html)) \X (1..MaxRows) \X (0..(MaxTd - 1)) :
        /\ TableTaken(x[1])
        /\ x[2] <= Len(html[x[1]].trs)
        /\ RowTaken(x[1], x[2])
        /\ x[3] < html[x[1]].trs[x[2]]}

\* x comes before y in document order
Before(x, y) ==
    \/ x[1] < y[1]
    \/ x[1] = y[1] /\ x[2] < y[2]
    \/ x[1] = y[1] /\ x[2] = y[2] /\ x[3] < y[3]

\* An Exact schema has no rule for the cell's column.
NoRuleFor(x) == collect.include = "All" /\ x[3] \notin DOMAIN collect.td_map

\* The rule of the cell's column is a selector that does not parse.
BadSelectorAt(x) ==
    /\ x[3] \in RuledColumns
    /\ LET rule == IF collect.include = "All" THEN collect.td_map[x[3]]
                   ELSE Unwrap(collect.td_map[x[3]])
       IN  rule.select = "Matching" /\ ~SelectorParses(rule.css)

\* C9 as claimed: the scan fails with an error, and returns no records,
\* exactly when the document contains no table at all.
C9_FailsOnlyWithoutTables ==
    IsSome(scanned) => (ScanResult.kind = "Err" <=> Len(html) = 0)

\* C9: the scan fails with an error, and returns no records, exactly when
\* the document contains no table at all, or when, visiting the accepted
\* rows of the qualifying tables in document order, it reaches a Matching
\* rule whose selector does not parse (and no cell before it is one an
\* Exact schema has no rule for, where the scan panics).
C9_FailsWithoutTablesOrOnSelector ==
    IsSome(scanned) =>
        /\ ScanResult.kind = "Err" <=>
               \/ Len(html) = 0
               \/ \E x \in VisitedCells :
                      /\ BadSelectorAt(x)
                      /\ \A y \in VisitedCells : Before(y, x) => ~NoRuleFor(y)
        /\ ScanResult.kind = "Err" => ScanResult.elements = << >>

\* C9's case: a document without tables was scanned, with a schema that
\* has rules.
C9_Witness ==
    /\ IsSome(scanned)
    /\ Len(html) = 0
    /\ RuledColumns # {}
    /\ ScanResult.kind = "Err"

\* The document with the rows of every table of another th count removed
WithoutOtherRows ==
    [t \in 1..Len(html) |->
        IF html[t].th = collect.th_count THEN html[t]
        ELSE [th |-> html[t].th, trs |-> << >>]]

AcceptedRowSet ==
    {x \in (1..Len(html)) \X (1..MaxRows) :
        /\ TableTaken(x[1])
        /\ x[2] <= Len(html[x[1]].trs)
        /\ RowTaken(x[1], x[2])}

\* The place of an accepted row among the accepted rows, in document order
RowRank(x) ==
    1 + Cardinality({y \in AcceptedRowSet :
                        y[1] < x[1] \/ (y[1] = x[1] /\ y[2] < x[2])})

C12_RecordHasRuledColumns ==
    (IsSome(scanned) /\ ScanResult.kind = "Ok") =>
        \A k \in 1..Len(ScanResult.elements) :
            DOMAIN ScanResult.elements[k] = RuledColumns

(***************************************************************************)
(* The per-fact builders that resolve their rows through region_by_opt.    *)
(*                                                                         *)
(* A builder's loop takes the row records of map_from_table_data one at a  *)
(* time.  A row is given by what the builder's extraction helpers read     *)
(* from its cells: link_title_and_text_opt_if gives (title, text), each    *)
(* an Option<String>; link_text_if gives an Option<String>.                *)
(***************************************************************************)
\* The region registry a builder is given: both entities, or only entity 2
BuildRegistries ==
    {(1 :> [name |-> <<"A">>, state_name |-> <<"A">>])
        @@ (2 :> [name |-> <<"b">>, state_name |-> <<"b">>]),
     (2 :> [name |-> <<"b">>, state_name |-> <<"b">>])}
\* The alias table a builder is given: "A" is another name of entity 2, or
\* of entity 1
BuildAliasTables == {(2 :> <<<<"A">>>>), (1 :> <<<<"A">>>>)}
\* The display names the rows of a builder's table carry
BuildNames == {<<"a">>, <<"B", " ">>}
\* What link_title_if and link_text_if give for a link of such a name: the
\* trimmed title, the trimmed text
LinkNames == {Trim(n) : n \in BuildNames}

StepResult(what, registry) == [outcome |-> what, items |-> registry]

\* BTreeMap::insert: a new entry, or the value of an existing key replaced
Insert(map, key, value) ==
    [k \in DOMAIN map \cup {key} |-> IF k = key THEN value ELSE map[k]]

\* Vec::get on a 0-based index
Get(v, i) == IF i + 1 <= Len(v) THEN Some(v[i + 1]) ELSE None

\* The rows of the calling-code table: the link text of the code column and
\* the text nodes of the country cell
CallingCodeRows ==
    [code : OptionOf({<<"1">>, <<"7">>}), texts : SeqsUpTo(BuildNames, 2)]

\* A slip: a row of a territory that already has a code replaces the code.
CallingCodeStepOverwrite(its, m) ==
    IF IsNone(m.code) THEN StepResult("Skip", its)
    ELSE
        LET vals == [i \in 1..Len(m.texts) |-> Trim(m.texts[i])]
            r == RegionByOpt(regions, countries, Get(vals, 0), Get(vals, 1))
        IN  CASE r.kind = "Panic" -> StepResult("Panic", its)
              [] r.kind = "Err" -> StepResult("Skip", its)
              [] r.kind = "Ok" ->
                    StepResult("Insert", Insert(its, r.found[1].id, Unwrap(m.code)))

\* One pass of the loop of CallingCode::from_html
CallingCodeStep(its, m) ==
    IF IsNone(m.code) THEN StepResult("Skip", its)
    ELSE
        LET vals == [i \in 1..Len(m.texts) |-> Trim(m.texts[i])]
            r == RegionByOpt(regions, countries, Get(vals, 0), Get(vals, 1))
        IN  CASE r.kind = "Panic" -> StepResult("Panic", its)
              [] r.kind = "Err" -> StepResult("Skip", its)
              [] r.kind = "Ok" ->
                    LET iso_id == r.found[1].id
                    IN  IF iso_id \in DOMAIN its THEN StepResult("Skip", its)
                        ELSE StepResult("Insert", Insert(its, iso_id, Unwrap(m.code)))

\* The text of a span[lang] element: None for a span without text
SpanTexts == OptionOf({<<"p">>, <<"P", " ">>})

\* The rows of the capitals table: the td count (at least the 3 columns
\* with a rule), the country links, the capital's link text, and the first
\* text of each span[lang] of the endonym column
CapitalRows ==
    [ntd : {3, 5}, title : OptionOf(LinkNames), text : OptionOf(LinkNames),
     capital : OptionOf({<<"P">>}), spans : SeqsUpTo(SpanTexts, MaxSpans)]

\* The filter_map over the spans: the trimmed texts that are not the exonym
RECURSIVE Endonyms(_, _)
Endonyms(name, spans) ==
    IF spans = << >> THEN << >>
    ELSE IF IsNone(Head(spans)) \/ name = Trim(Unwrap(Head(spans)))
    THEN Endonyms(name, Tail(spans))
    ELSE <<Trim(Unwrap(Head(spans)))>> \o Endonyms(name, Tail(spans))

\* A slip: the list of endonyms is kept when it is empty.
EndonymsOptionAlways(endonym) == Some(endonym)

\* match endonym.len(): an empty list becomes None
EndonymsOption(endonym) == IF Len(endonym) = 0 THEN None ELSE Some(endonym)

\* One pass of the loop of Capital::from_html
CapitalStep(its, m) ==
    LET r == RegionByOpt(regions, countries, m.title, m.text)
    IN  CASE r.kind = "Panic" -> StepResult("Panic", its)
          [] r.kind = "Err" -> StepResult("Skip", its)
          [] r.kind = "Ok" ->
                IF IsNone(m.capital) THEN StepResult("Skip", its)
                ELSE IF m.ntd <= 3 THEN StepResult("Err", its)
                ELSE
                    LET endonym == Endonyms(Unwrap(m.capital), m.spans)
                        endonyms == EndonymsOption(endonym)
                    IN  StepResult("Insert",
                            Insert(its, r.found[1].id,
                                   [name |-> Unwrap(m.capital), endonyms |-> endonyms]))

\* The text nodes of the ISO code cell of a currency row
IsoCells == {<<<<"A", "B">>>>, <<<<"A", "B", "C">>>>, <<<<"A", "B">>, <<"B", "A", "C", " ">>>>}

\* The rows of the currency table; at most one of the four remaining
\* fields is unreadable
CurrencyRows ==
    {m \in [iso : IsoCells, title : OptionOf(LinkNames),
            text : OptionOf(LinkNames), name : OptionOf({<<"D">>}),
            symbol : OptionOf({<<"$", " ", "A">>}), fraction_name : OptionOf({<<"c">>}),
            fraction_basic : OptionOf({100})] :
        Cardinality({f \in {"name", "symbol", "fraction_name", "fraction_basic"} :
                        IsNone(m[f])}) <= 1}

\* Iterator::find on a Vec: the first element with the property
RECURSIVE FindTrimmedLen(_, _)
FindTrimmedLen(v, n) ==
    IF v = << >> THEN None
    ELSE IF Len(Trim(Head(v))) = n THEN Some(Head(v))
    ELSE FindTrimmedLen(Tail(v), n)

\* A slip: a row whose code is already in the registry makes a new entity
\* that replaces the one there.
CurrencyStepReplace(its, m) ==
    LET code == FindTrimmedLen(m.iso, 3)
    IN  IF IsNone(code) THEN StepResult("Skip", its)
        ELSE
            LET iso == IdentifierNew(Unwrap(code))
                r == RegionByOpt(regions, countries, m.title, m.text)
            IN  CASE r.kind = "Panic" -> StepResult("Panic", its)
                  [] r.kind = "Err" -> StepResult("Skip", its)
                  [] r.kind = "Ok" ->
                        IF IsNone(m.name) \/ IsNone(m.symbol)
                           \/ IsNone(m.fraction_name) \/ IsNone(m.fraction_basic)
                        THEN StepResult("Skip", its)
                        ELSE StepResult("Insert",
                                 Insert(its, iso,
                                        [name |-> Unwrap(m.name),
                                         symbol |-> SplitFirst(Unwrap(m.symbol), " "),
                                         fraction |-> [name |-> Unwrap(m.fraction_name),
                                                       basic |-> Unwrap(m.fraction_basic)],
                                         regions |-> <<r.found[1].id>>]))

\* One pass of the loop of Currency::from_html
CurrencyStep(its, m) ==
    LET code == FindTrimmedLen(m.iso, 3)
    IN  IF IsNone(code) THEN StepResult("Skip", its)
        ELSE
            LET iso == IdentifierNew(Unwrap(code))
                r == RegionByOpt(regions, countries, m.title, m.text)
            IN  CASE r.kind = "Panic" -> StepResult("Panic", its)
                  [] r.kind = "Err" -> StepResult("Skip", its)
                  [] r.kind = "Ok" ->
                        IF iso \in DOMAIN its
                        THEN StepResult("Merge",
                                 [its EXCEPT ![iso].regions = Append(@, r.found[1].id)])
                        ELSE IF IsNone(m.name) \/ IsNone(m.symbol)
                                \/ IsNone(m.fraction_name) \/ IsNone(m.fraction_basic)
                        THEN StepResult("Skip", its)
                        ELSE StepResult("Insert",
                                 Insert(its, iso,
                                        [name |-> Unwrap(m.name),
                                         symbol |-> SplitFirst(Unwrap(m.symbol), " "),
                                         fraction |-> [name |-> Unwrap(m.fraction_name),
                                                       basic |-> Unwrap(m.fraction_basic)],
                                         regions |-> <<r.found[1].id>>]))

\* The names process_td_cell harvests from a language cell (link texts and
\* titles, list items, the words of the text)
LanguageWords == {<<"f">>, <<"G">>}

\* The rows of the language zones table: the country links and the names
\* harvested from the official and the regional language cell
ZoneRows ==
    [title : OptionOf(LinkNames), text : OptionOf(LinkNames),
     official : SUBSET LanguageWords, regional : SUBSET LanguageWords]

\* The language registries zones_from_html is given: keys 1..2 in key order
LanguageRegistries ==
    [1..2 -> [name_short : {<<"F">>, <<"G">>}, name_long : {<<"F", "r">>},
              iso639 : {[set1 |-> <<"f", "r">>]},
              regions : {<< >>}]]

Contains(v, x) == \E k \in 1..Len(v) : v[k] = x

\* A slip: the territory is appended without looking whether the list
\* has it.
RECURSIVE ProcessTdCellNoContains(_, _, _)
ProcessTdCellNoContains(langs, names, region) ==
    IF names = {} THEN langs
    ELSE
        LET i == CHOOSE n \in names : TRUE
            lcl == ToLowercase(i)
            hit == {l \in DOMAIN langs :
                       \/ ToLowercase(langs[l].name_short) = lcl
                       \/ ToLowercase(langs[l].name_long) = lcl}
            next == IF hit = {} THEN langs
                    ELSE [langs EXCEPT ![Min(hit)].regions = Append(@, region)]
        IN  ProcessTdCellNoContains(next, names \ {i}, region)

\* A slip: a harvested name that no language has is entered as a new
\* language of the territory.
RECURSIVE ProcessTdCellInsertUnknown(_, _, _)
ProcessTdCellInsertUnknown(langs, names, region) ==
    IF names = {} THEN langs
    ELSE
        LET i == CHOOSE n \in names : TRUE
            lcl == ToLowercase(i)
            hit == {l \in DOMAIN langs :
                       \/ ToLowercase(langs[l].name_short) = lcl
                       \/ ToLowercase(langs[l].name_long) = lcl}
            next == IF hit = {}
                    THEN Insert(langs, Max(DOMAIN langs) + 1,
                                [name_short |-> i, name_long |-> i,
                                 iso639 |-> [set1 |-> lcl], regions |-> <<region>>])
                    ELSE IF Contains(langs[Min(hit)].regions, region)
                    THEN langs
                    ELSE [langs EXCEPT ![Min(hit)].regions = Append(@, region)]
        IN  ProcessTdCellInsertUnknown(next, names \ {i}, region)

\* The loop of process_td_cell over the sorted, deduplicated names: each
\* takes the first language, in key order, with that short or long name.
\* The order of the names does not change the result.
RECURSIVE ProcessTdCell(_, _, _)
ProcessTdCell(langs, names, region) ==
    IF names = {} THEN langs
    ELSE
        LET i == CHOOSE n \in names : TRUE
            lcl == ToLowercase(i)
            hit == {l \in DOMAIN langs :
                       \/ ToLowercase(langs[l].name_short) = lcl
                       \/ ToLowercase(langs[l].name_long) = lcl}
            next == IF hit = {} \/ Contains(langs[Min(hit)].regions, region)
                    THEN langs
                    ELSE [langs EXCEPT ![Min(hit)].regions = Append(@, region)]
        IN  ProcessTdCell(next, names \ {i}, region)

\* One pass of the loop of Language::zones_from_html; the registry it
\* changes is the language registry
ZonesStep(langs, m) ==
    LET r == RegionByOpt(regions, countries, m.title, m.text)
    IN  CASE r.kind = "Panic" -> StepResult("Panic", langs)
          [] r.kind = "Err" -> StepResult("Skip", langs)
          [] r.kind = "Ok" ->
                LET iso_id == r.found[1].id
                    official == ProcessTdCell(langs, m.official, iso_id)
                IN  StepResult("Merge", ProcessTdCell(official, m.regional, iso_id))

Builders == {"CallingCode", "Capital", "Currency", "Zones"}

RowsOf(b) ==
    CASE b = "CallingCode" -> CallingCodeRows
      [] b = "Capital" -> CapitalRows
      [] b = "Currency" -> CurrencyRows
      [] b = "Zones" -> ZoneRows

InitBuildIdle ==
    /\ builder = "CallingCode"
    /\ items = << >>
    /\ languages = << >>
    /\ sovereign_states = << >>
    /\ row = None
    /\ outcome = "None"
    /\ nrows = 0
    /\ status = "Done"

\* The state when from_html is entered: an empty output registry; the
\* zone pass is given the alias table and the language registry
InitBuild ==
    /\ builder \in Builders
    /\ regions \in BuildRegistries
    /\ countries \in IF builder = "Zones" THEN {Some(a) : a \in BuildAliasTables}
                     ELSE OptionOf(BuildAliasTables)
    /\ first = None
    /\ second = None
    /\ resolved = None
    /\ items = << >>
    /\ languages \in IF builder = "Zones" THEN LanguageRegistries ELSE {<< >>}
    /\ sovereign_states = << >>
    /\ row = None
    /\ outcome = "None"
    /\ nrows = 0
    /\ status = "Running"

\* What a pass of the loop leaves: continue, or from_html ends
StatusAfter(what) ==
    CASE what = "Panic" -> "Panic"
      [] what = "Err" -> "Err"
      [] OTHER -> "Running"

\* map_from_table_data(...)? fails: from_html returns the error
ScanFails ==
    /\ status = "Running"
    /\ nrows = 0
    /\ status' = "Err"
    /\ UNCHANGED <<builder, items, languages, sovereign_states, row, outcome, nrows>>
    /\ UNCHANGED <<identVars, resolveVars, scanVars, flagVars, mainVars>>

\* The loop of a registry builder takes the next row record
BuildRow ==
    /\ status = "Running"
    /\ builder # "Zones"
    /\ nrows < MaxBuildRows
    /\ \E m \in RowsOf(builder) :
          LET done == CASE builder = "CallingCode" -> CallingCodeStep(items, m)
                        [] builder = "Capital" -> CapitalStep(items, m)
                        [] builder = "Currency" -> CurrencyStep(items, m)
          IN  /\ row' = Some(m)
              /\ outcome' = done.outcome
              /\ items' = done.items
              /\ status' = StatusAfter(done.outcome)
    /\ nrows' = nrows + 1
    /\ UNCHANGED <<builder, languages, sovereign_states>>
    /\ UNCHANGED <<identVars, resolveVars, scanVars, flagVars, mainVars>>

\* The loop of Language::zones_from_html takes the next row record
ZonesRow ==
    /\ status = "Running"
    /\ builder = "Zones"
    /\ nrows < MaxBuildRows
    /\ \E m \in ZoneRows :
          LET done == ZonesStep(languages, m)
          IN  /\ row' = Some(m)
              /\ outcome' = done.outcome
              /\ languages' = done.items
              /\ status' = StatusAfter(done.outcome)
    /\ nrows' = nrows + 1
    /\ UNCHANGED <<builder, items, sovereign_states>>
    /\ UNCHANGED <<identVars, resolveVars, scanVars, flagVars, mainVars>>

\* The row records are exhausted: from_html returns Ok
BuildEnds ==
    /\ status = "Running"
    /\ status' = "Ok"
    /\ UNCHANGED <<builder, items, languages, sovereign_states, row, outcome, nrows>>
    /\ UNCHANGED <<identVars, resolveVars, scanVars, flagVars, mainVars>>

(***************************************************************************)
(* The territorial-code builder, Region::from_html.                        *)
(*                                                                         *)
(* A row is given by what the builder reads from its cells: the title of   *)
(* the name column's link, the sovereignty cell (its own text node and     *)
(* its link, if any), the text of the 2-letter code, and whether the       *)
(* remaining columns (state name, 3-letter code, number, subdivision       *)
(* link, domains) can be read and are valid; any of them failing makes     *)
(* from_html return an error.                                              *)
(***************************************************************************)
UnMember == <<"U", "N", " ", "m", "e", "m", "b", "e", "r">>
StateS == <<"S">>

\* str::contains
ContainsStr(s, needle) ==
    \E i \in 1..(Len(s) + 1) :
        /\ i + Len(needle) - 1 <= Len(s)
        /\ SubSeq(s, i, i + Len(needle) - 1) = needle

\* The sovereign states the builder is given, keys 1..2 in key order
SovereignStates ==
    [1..2 -> [name_short : {<<"s">>, <<"T">>}, name_long : {<<"S">>, <<"U">>}]]

\* The sovereignty cell: its own text node and its a element
SovereigntyCells ==
    [text : OptionOf({UnMember}),
     link : OptionOf([href : {"#", "/wiki/"}, text : {UnMember, StateS}])]

\* str::starts_with
StartsWith(s, prefix) ==
    Len(s) >= Len(prefix) /\ SubSeq(s, 1, Len(prefix)) = prefix

\* The decimal digits and their values
DigitOf ==
    ("0" :> 0) @@ ("1" :> 1) @@ ("2" :> 2) @@ ("3" :> 3) @@ ("4" :> 4)
        @@ ("5" :> 5) @@ ("6" :> 6) @@ ("7" :> 7) @@ ("8" :> 8) @@ ("9" :> 9)

\* u16::MAX
U16Max == 65535

RECURSIVE DecimalValue(_)
DecimalValue(s) ==
    IF s = << >> THEN 0
    ELSE 10 * DecimalValue(SubSeq(s, 1, Len(s) - 1)) + DigitOf[s[Len(s)]]

\* str::parse::<u16>: an optional plus sign and one or more digits, the
\* value at most u16::MAX
ParseU16(s) ==
    LET digits == IF s # << >> /\ s[1] = "+" THEN Tail(s) ELSE s
    IN  IF digits = << >> \/ \E i \in 1..Len(digits) : digits[i] \notin DOMAIN DigitOf
        THEN None
        ELSE IF DecimalValue(digits) > U16Max THEN None
        ELSE Some(DecimalValue(digits))

\* Iso3166_1::new
Iso3166_1New(a2, a3, num) ==
    IF Len(a2) # 2 THEN None
    ELSE IF Len(a3) # 3 THEN None
    ELSE Some([a2 |-> a2, a3 |-> a3, num |-> num])

\* The prefix Iso3166_2::new expects
IsoPrefix == <<"I", "S", "O", " ", "3", "1", "6", "6", "-", "2", ":">>

\* Iso3166_2::new
Iso3166_2New(s) ==
    LET clean == ToUppercase(Trim(s))
    IN  IF StartsWith(clean, IsoPrefix) /\ Len(clean) = 13 THEN Some(clean) ELSE None

\* Tld::new: every element cleaned, the first element that is not .xx fails
TldNew(v) ==
    LET clean == [i \in 1..Len(v) |-> ToLowercase(Trim(v[i]))]
    IN  IF \A i \in 1..Len(v) : StartsWith(clean[i], <<".">>) /\ Len(clean[i]) = 3
        THEN Some(clean)
        ELSE None

\* Well-formed code columns of a row
CodeFi == <<"f", "i">>
CodeFin == <<"f", "i", "n">>
Num246 == <<"2", "4", "6">>
IsoFi == IsoPrefix \o <<"F", "I">>
TldFi == <<".", "f", "i">>

\* Rows of the ISO 3166 table whose name and sovereignty cells vary, their
\* code columns well-formed but for the 2-letter code
SovereigntyRows ==
    [name : OptionOf({<<"S">>, <<"t">>}), cell : SovereigntyCells,
     state_name : {<<"N">>},
     a2 : {CodeFi, <<"F", "I", " ">>, <<"s", "e">>, <<"f">>},
     a3 : {CodeFin}, num : {Num246},
     iso_3166_2 : {Some(IsoFi)}, tld : {<<TldFi>>}]

\* Rows of the ISO 3166 table whose code columns vary: the 3-letter code,
\* the numeric code, the title of the ISO 3166-2 link (None without a link)
\* and the titles of the links of the tld cell; their sovereignty cell
\* is empty or links to a state
CodeRows ==
    [name : {Some(<<"S">>)},
     cell : {[text |-> None, link |-> None],
             [text |-> None, link |-> Some([href |-> "#", text |-> StateS])]},
     state_name : {<<"N">>},
     a2 : {CodeFi},
     a3 : {CodeFin, CodeFi},
     num : {Num246, <<"1", "0", "0", "0">>, <<"x">>},
     iso_3166_2 : {None, Some(IsoFi), Some(<<"I", "S", "O", ":", "F", "I">>)},
     tld : {<< >>, <<<<".", "F", "I">>>>, <<<<"f", "i">>>>, <<TldFi, <<".", "a", "x">>>>}]

\* The rows of the ISO 3166 table
RegionRows == SovereigntyRows \cup CodeRows

\* The text nodes of the cell, its link's text among them
CellTexts(cell) ==
    (IF IsSome(cell.text) THEN {Unwrap(cell.text)} ELSE {})
        \cup (IF IsSome(cell.link) THEN {Unwrap(cell.link).text} ELSE {})

\* member_link || member_str: a link text, or any text of the cell, holds
\* "un member" in whatever case
MemberMarker(cell) ==
    \/ IsSome(cell.link) /\ ContainsStr(ToLowercase(Unwrap(cell.link).text), ToLowercase(UnMember))
    \/ \E t \in CellTexts(cell) : ContainsStr(ToLowercase(t), ToLowercase(UnMember))

\* state_ref: link_text_if("#", e) of the cell's link
StateRef(cell) ==
    IF IsSome(cell.link) /\ Unwrap(cell.link).href = "#"
          /\ Trim(Unwrap(cell.link).text) # << >>
    THEN Some(Trim(Unwrap(cell.link).text))
    ELSE None

\* A slip: the long names are searched before the short names.
FindStateLongFirst(n) ==
    LET shorts == {k \in DOMAIN sovereign_states :
                      ToLowercase(sovereign_states[k].name_short) = ToLowercase(n)}
        longs == {k \in DOMAIN sovereign_states :
                     ToLowercase(sovereign_states[k].name_long) = ToLowercase(n)}
    IN  IF longs # {} THEN Some(Min(longs))
        ELSE IF shorts # {} THEN Some(Min(shorts))
        ELSE None

\* sovereign_states.iter().find on the short names, then on the long names
FindState(n) ==
    LET shorts == {k \in DOMAIN sovereign_states :
                      ToLowercase(sovereign_states[k].name_short) = ToLowercase(n)}
        longs == {k \in DOMAIN sovereign_states :
                     ToLowercase(sovereign_states[k].name_long) = ToLowercase(n)}
    IN  IF shorts # {} THEN Some(Min(shorts))
        ELSE IF longs # {} THEN Some(Min(longs))
        ELSE None

\* A slip: a name that matches no state takes the first state of the
\* registry instead of skipping the row.
SovereigntyFirstState(m) ==
    LET firstState == Some([iso_id |-> Min(DOMAIN sovereign_states), un_member |-> FALSE])
    IN  IF MemberMarker(m.cell)
        THEN LET t == FindState(Unwrap(m.name))
             IN  IF IsSome(t) THEN Some([iso_id |-> Unwrap(t), un_member |-> TRUE])
                 ELSE firstState
        ELSE IF IsSome(StateRef(m.cell))
        THEN LET t == FindState(Unwrap(StateRef(m.cell)))
             IN  IF IsSome(t) THEN Some([iso_id |-> Unwrap(t), un_member |-> FALSE])
                 ELSE firstState
        ELSE None

\* The sovereignty of a row: Some([iso_id, un_member]), or None (continue)
Sovereignty(m) ==
    IF MemberMarker(m.cell)
    THEN LET t == FindState(Unwrap(m.name))
         IN  IF IsSome(t) THEN Some([iso_id |-> Unwrap(t), un_member |-> TRUE]) ELSE None
    ELSE IF IsSome(StateRef(m.cell))
    THEN LET t == FindState(Unwrap(StateRef(m.cell)))
         IN  IF IsSome(t) THEN Some([iso_id |-> Unwrap(t), un_member |-> FALSE]) ELSE None
    ELSE None

\* A slip: a row whose Identifier is in the registry replaces the entry.
RegionStepOverwrite(its, m) ==
    IF IsNone(m.name) THEN StepResult("Err", its)
    ELSE
        LET sov == Sovereignty(m)
            val == ToUppercase(Trim(m.a2))
            a3 == ToUppercase(Trim(m.a3))
            num == ParseU16(Trim(m.num))
        IN  IF IsNone(sov) THEN StepResult("Skip", its)
            ELSE IF Len(val) # 2 THEN StepResult("Err", its)
            ELSE IF Len(a3) # 3 THEN StepResult("Err", its)
            ELSE IF IsNone(num) \/ Unwrap(num) > 999 THEN StepResult("Err", its)
            ELSE IF IsNone(m.iso_3166_2) THEN StepResult("Err", its)
            ELSE IF \/ IsNone(Iso3166_1New(val, a3, Unwrap(num)))
                    \/ IsNone(Iso3166_2New(Unwrap(m.iso_3166_2)))
                    \/ IsNone(TldNew(m.tld))
                 THEN StepResult("Err", its)
            ELSE StepResult("Insert",
                     Insert(its, IdentifierNew(val),
                            [name |-> Unwrap(m.name), state_name |-> Trim(m.state_name),
                             un_member |-> Unwrap(sov).un_member,
                             sovereignity |-> Unwrap(sov).iso_id,
                             a2 |-> val, a3 |-> a3, num |-> Unwrap(num),
                             iso_3166_2 |-> Unwrap(Iso3166_2New(Unwrap(m.iso_3166_2))),
                             tld |-> Unwrap(TldNew(m.tld))]))

\* One pass of the loop of Region::from_html
RegionStep(its, m) ==
    IF IsNone(m.name) THEN StepResult("Err", its)
    ELSE
        LET sov == Sovereignty(m)
            val == ToUppercase(Trim(m.a2))
            a3 == ToUppercase(Trim(m.a3))
            num == ParseU16(Trim(m.num))
        IN  IF IsNone(sov) THEN StepResult("Skip", its)
            ELSE IF Len(val) # 2 THEN StepResult("Err", its)
            ELSE IF Len(a3) # 3 THEN StepResult("Err", its)
            ELSE IF IsNone(num) \/ Unwrap(num) > 999 THEN StepResult("Err", its)
            ELSE IF IsNone(m.iso_3166_2) THEN StepResult("Err", its)
            ELSE IF IdentifierNew(val) \in DOMAIN its THEN StepResult("Err", its)
            ELSE IF \/ IsNone(Iso3166_1New(val, a3, Unwrap(num)))
                    \/ IsNone(Iso3166_2New(Unwrap(m.iso_3166_2)))
                    \/ IsNone(TldNew(m.tld))
                 THEN StepResult("Err", its)
            ELSE StepResult("Insert",
                     Insert(its, IdentifierNew(val),
                            [name |-> Unwrap(m.name), state_name |-> Trim(m.state_name),
                             un_member |-> Unwrap(sov).un_member,
                             sovereignity |-> Unwrap(sov).iso_id,
                             a2 |-> val, a3 |-> a3, num |-> Unwrap(num),
                             iso_3166_2 |-> Unwrap(Iso3166_2New(Unwrap(m.iso_3166_2))),
                             tld |-> Unwrap(TldNew(m.tld))]))

\* The state when Region::from_html is entered
InitRegionBuild ==
    /\ builder = "Region"
    /\ regions = << >>
    /\ countries = None
    /\ first = None
    /\ second = None
    /\ resolved = None
    /\ items = << >>
    /\ languages = << >>
    /\ sovereign_states \in SovereignStates
    /\ row = None
    /\ outcome = "None"
    /\ nrows = 0
    /\ status = "Running"

\* The loop of Region::from_html takes the next row record
RegionRow ==
    /\ status = "Running"
    /\ builder = "Region"
    /\ nrows < MaxBuildRows
    /\ \E m \in RegionRows :
          LET done == RegionStep(items, m)
          IN  /\ row' = Some(m)
              /\ outcome' = done.outcome
              /\ items' = done.items
              /\ status' = StatusAfter(done.outcome)
    /\ nrows' = nrows + 1
    /\ UNCHANGED <<builder, languages, sovereign_states>>
    /\ UNCHANGED <<identVars, resolveVars, scanVars, flagVars, mainVars>>

(***************************************************************************)
(* Flag::from_html: one download task is spawned per country into a        *)
(* JoinSet; the tasks run on the runtime's workers while the loop spawns   *)
(* the next; the join takes the tasks in the order they complete.          *)
(***************************************************************************)
MaxFlags == 2      \* countries whose flag is missing

\* let attempts = 5
Attempts == 5
\* Duration::from_millis(500)
DelayMs == 500

\* The countries Flag::from_html is asked for: keys 1..n in key order; TRUE
\* when one of the three img selectors finds a url in the document
FlagsMissing == UNION {[1..n -> BOOLEAN] : n \in 1..MaxFlags}

\* A task as spawned: the loop variable i of for i in 1..attempts, the
\* attempts that failed, the time slept and whether join_next has given
\* its result; an empty range fails at once
Spawned ==
    [state |-> IF 1 < Attempts THEN "Running" ELSE "Err",
     i |-> 1, failed |-> 0, slept |-> 0, joined |-> FALSE]

\* Dropping the JoinSet aborts every task that has not completed
Abort(hs) ==
    [id \in DOMAIN hs |->
        IF hs[id].state \in {"Running", "Sleeping"}
        THEN [hs[id] EXCEPT !.state = "Aborted"]
        ELSE hs[id]]

\* After the sleep: the next i of for i in 1..attempts, or bail! past
\* the loop
NextAttempt(task) ==
    [task EXCEPT !.slept = @ + DelayMs,
                 !.i = IF task.i + 1 < Attempts THEN @ + 1 ELSE @,
                 !.state = IF task.i + 1 < Attempts THEN "Running" ELSE "Err"]

\* A slip: the result of a task that failed is dropped at the join.
JoinedSkipFailed(task, id, fl) ==
    IF task.state = "Ok"
    THEN [flags |-> Append(fl, id), returned |-> None]
    ELSE [flags |-> fl, returned |-> None]

\* r?.map(|f|flags.push(f))?: the Flag of a task that succeeded is
\* pushed, the error of a task that failed is returned
Joined(task, id, fl) ==
    IF task.state = "Ok"
    THEN [flags |-> Append(fl, id), returned |-> None]
    ELSE [flags |-> fl, returned |-> Some("Err")]

\* The state when Flag::from_html is entered
InitFlag ==
    /\ missing \in FlagsMissing
    /\ handles = << >>
    /\ flags = << >>
    /\ returned = None

\* The loop over the countries takes the next: without a url from_html
\* returns an error, else the download task is spawned
Spawn ==
    /\ IsNone(returned)
    /\ DOMAIN missing \ DOMAIN handles # {}
    /\ LET id == Min(DOMAIN missing \ DOMAIN handles)
       IN  IF missing[id]
           THEN /\ handles' = (handles @@ (id :> Spawned))
                /\ returned' = returned
           ELSE /\ handles' = Abort(handles)
                /\ returned' = Some("Err")
    /\ UNCHANGED <<missing, flags>>
    /\ UNCHANGED <<identVars, resolveVars, scanVars, buildVars, mainVars>>

\* try_flag_download of a task ends: the task returns its Flag, or
\* goes to sleep
Download(id) ==
    /\ id \in DOMAIN handles
    /\ handles[id].state = "Running"
    /\ \E ok \in BOOLEAN :
          handles' = [handles EXCEPT ![id] =
                         IF ok THEN [@ EXCEPT !.state = "Ok"]
                         ELSE [@ EXCEPT !.state = "Sleeping", !.failed = @ + 1]]
    /\ UNCHANGED <<missing, flags, returned>>
    /\ UNCHANGED <<identVars, resolveVars, scanVars, buildVars, mainVars>>

\* The sleep of a task ends
Wake(id) ==
    /\ id \in DOMAIN handles
    /\ handles[id].state = "Sleeping"
    /\ handles' = [handles EXCEPT ![id] = NextAttempt(@)]
    /\ UNCHANGED <<missing, flags, returned>>
    /\ UNCHANGED <<identVars, resolveVars, scanVars, buildVars, mainVars>>

\* handles.join_next() gives a task that has completed
JoinNext(id) ==
    /\ IsNone(returned)
    /\ DOMAIN handles = DOMAIN missing
    /\ id \in DOMAIN handles
    /\ handles[id].state \in {"Ok", "Err"}
    /\ ~handles[id].joined
    /\ LET done == Joined(handles[id], id, flags)
           taken == [handles EXCEPT ![id].joined = TRUE]
       IN  /\ flags' = done.flags
           /\ returned' = done.returned
           /\ handles' = IF IsSome(done.returned) THEN Abort(taken) ELSE taken
    /\ UNCHANGED missing
    /\ UNCHANGED <<identVars, resolveVars, scanVars, buildVars, mainVars>>

\* join_next() gives None: Ok(flags)
FlagsEnd ==
    /\ IsNone(returned)
    /\ DOMAIN handles = DOMAIN missing
    /\ \A id \in DOMAIN handles : handles[id].joined
    /\ returned' = Some("Ok")
    /\ UNCHANGED <<missing, handles, flags>>
    /\ UNCHANGED <<identVars, resolveVars, scanVars, buildVars, mainVars>>

(***************************************************************************)
(* main: the stages run one after another; each loads its registry from    *)
(* output/ when the file holds one, else fetches the document and builds   *)
(* the registry, and writes the registry to its file.  The outcome of a    *)
(* fetch, of a builder and of a write is whatever the network, the         *)
(* document and the disk give.                                             *)
(***************************************************************************)
Stages ==
    <<"un_nations", "sovereign_states", "regions", "flags", "currencies",
      "emojis", "calling_codes", "languages", "capitals">>

StageSet == {Stages[k] : k \in 1..Len(Stages)}

\* The first step of a stage: the UN member list is always fetched
FirstStep(stage) ==
    [stage |-> stage, step |-> IF stage = "un_nations" THEN "Fetch" ELSE "Load"]

\* What follows a stage: the next stage, or the end of main
AfterStage(stage) ==
    LET k == CHOOSE n \in 1..Len(Stages) : Stages[n] = stage
    IN  IF k < Len(Stages) THEN FirstStep(Stages[k + 1])
        ELSE [stage |-> stage, step |-> "Done"]

\* What follows once the registry of a stage is in memory: the zone pass
\* for the languages, else the write
AfterBuild(stage) ==
    [stage |-> stage, step |-> IF stage = "languages" THEN "FetchZones" ELSE "Write"]

\* The state when main is entered
InitMain ==
    /\ pc = FirstStep("un_nations")
    /\ stage_registry = "Empty"
    /\ output = [f \in StageSet |-> "None"]
    /\ failures = {}
    /\ run = "Running"

\* The file of the stage is read: a registry that is not empty is taken as
\* it is (for the flags: no flag is missing), else the document is fetched
LoadRegistry ==
    /\ run = "Running"
    /\ pc.step = "Load"
    /\ \E cached \in BOOLEAN :
          IF cached
          THEN /\ stage_registry' = "Cached"
               /\ pc' = AfterBuild(pc.stage)
          ELSE /\ stage_registry' = "Empty"
               /\ pc' = [pc EXCEPT !.step = "Fetch"]
    /\ UNCHANGED <<output, failures, run>>
    /\ UNCHANGED <<identVars, resolveVars, scanVars, buildVars, flagVars>>

\* fetch::get_html of the stage's document: an error ends main with
\* exit(1), but for the UN member list, which is left empty
FetchDocument ==
    /\ run = "Running"
    /\ pc.step = "Fetch"
    /\ \E ok \in BOOLEAN :
          IF ok
          THEN /\ pc' = [pc EXCEPT !.step = "Build"]
               /\ UNCHANGED <<failures, run>>
          ELSE /\ failures' = failures \cup {[stage |-> pc.stage, what |-> "Fetch"]}
               /\ IF pc.stage = "un_nations"
                  THEN pc' = AfterStage(pc.stage) /\ run' = run
                  ELSE pc' = pc /\ run' = "Exit"
    /\ UNCHANGED <<stage_registry, output>>
    /\ UNCHANGED <<identVars, resolveVars, scanVars, buildVars, flagVars>>

\* The builder of the stage: an error ends main with exit(1), but for the
\* UN member list, which is left empty
BuildRegistry ==
    /\ run = "Running"
    /\ pc.step = "Build"
    /\ \E ok \in BOOLEAN :
          IF ok
          THEN /\ stage_registry' = "Built"
               /\ pc' = AfterBuild(pc.stage)
               /\ UNCHANGED <<failures, run>>
          ELSE /\ failures' = failures \cup {[stage |-> pc.stage, what |-> "Build"]}
               /\ stage_registry' = stage_registry
               /\ IF pc.stage = "un_nations"
                  THEN pc' = AfterStage(pc.stage) /\ run' = run
                  ELSE pc' = pc /\ run' = "Exit"
    /\ UNCHANGED output
    /\ UNCHANGED <<identVars, resolveVars, scanVars, buildVars, flagVars>>

\* fetch::get_html(LANG_ZONES): an error is logged and main goes on
FetchZones ==
    /\ run = "Running"
    /\ pc.step = "FetchZones"
    /\ \E ok \in BOOLEAN :
          IF ok
          THEN /\ pc' = [pc EXCEPT !.step = "Zones"]
               /\ failures' = failures
          ELSE /\ pc' = [pc EXCEPT !.step = "Write"]
               /\ failures' = failures \cup {[stage |-> "language_zones", what |-> "Fetch"]}
    /\ UNCHANGED <<stage_registry, output, run>>
    /\ UNCHANGED <<identVars, resolveVars, scanVars, buildVars, flagVars>>

\* Language::zones_from_html on the languages in memory: an error is
\* logged and main goes on
ZonesFromHtml ==
    /\ run = "Running"
    /\ pc.step = "Zones"
    /\ \E ok \in BOOLEAN :
          IF ok
          THEN /\ stage_registry' = "Zoned"
               /\ failures' = failures
          ELSE /\ stage_registry' = stage_registry
               /\ failures' = failures \cup {[stage |-> "language_zones", what |-> "Build"]}
    /\ pc' = [pc EXCEPT !.step = "Write"]
    /\ UNCHANGED <<output, run>>
    /\ UNCHANGED <<identVars, resolveVars, scanVars, buildVars, flagVars>>

\* write of the stage's file: an error ends main with exit(1)
WriteRegistry ==
    /\ run = "Running"
    /\ pc.step = "Write"
    /\ \E ok \in BOOLEAN :
          IF ok
          THEN /\ output' = [output EXCEPT ![pc.stage] = stage_registry]
               /\ IF pc.stage = "flags"
                  THEN pc' = [pc EXCEPT !.step = "Transform"] /\ run' = run
                  ELSE /\ pc' = AfterStage(pc.stage)
                       /\ run' = IF AfterStage(pc.stage).step = "Done" THEN "Done" ELSE run
          ELSE /\ output' = output
               /\ pc' = pc
               /\ run' = "Exit"
    /\ UNCHANGED <<stage_registry, failures>>
    /\ UNCHANGED <<identVars, resolveVars, scanVars, buildVars, flagVars>>

\* Flag::transform_flags: an error ends main with exit(1)
TransformFlags ==
    /\ run = "Running"
    /\ pc.step = "Transform"
    /\ \E ok \in BOOLEAN :
          IF ok
          THEN pc' = AfterStage(pc.stage) /\ run' = run
          ELSE pc' = pc /\ run' = "Exit"
    /\ UNCHANGED <<stage_registry, output, failures>>
    /\ UNCHANGED <<identVars, resolveVars, scanVars, buildVars, flagVars>>

(***************************************************************************)
(* Claims about the builders                                               *)
(***************************************************************************)
\* The two candidate names the builder extracts from the subject cell of
\* the row it took last
SubjectFirst ==
    IF builder = "CallingCode" THEN Get(Unwrap(row).texts, 0) ELSE Unwrap(row).title
SubjectSecond ==
    IF builder = "CallingCode" THEN Get(Unwrap(row).texts, 1) ELSE Unwrap(row).text

\* C8: in the currency, capital, calling-code and language-zone builders,
\* for every combination of present or absent candidate names, a row whose
\* subject resolves to no entity is skipped on its own: the builder neither
\* fails nor crashes and goes on with the next row.
C8_UnresolvedRowSkipped ==
    (IsSome(row) /\ ~Hits(SubjectFirst) /\ ~Hits(SubjectSecond))
    => outcome = "Skip" /\ status \in {"Running", "Ok"}

\* What the resolver gives for the subject of a currency row
CurrencyRegion(m) == RegionByOpt(regions, countries, m.title, m.text)

CallingCodeRegion(m) ==
    LET vals == [i \in 1..Len(m.texts) |-> Trim(m.texts[i])]
    IN  RegionByOpt(regions, countries, Get(vals, 0), Get(vals, 1))

\* C14: the calling-code registry is keyed by the Region identifier, so it
\* holds at most one CallingCode per identifier; no step of the loop
\* changes or removes an entry, so the code of an identifier is the code of
\* the first row that resolved to it; a row with a code that resolves to an
\* identifier already in the registry is discarded and leaves the registry
\* as it was, and one that resolves to a new identifier adds its code.
C14_RejectDuplicate ==
    [][(builder = "CallingCode" /\ nrows' = nrows + 1) =>
          LET m == Unwrap(row')
              r == CallingCodeRegion(m)
          IN  /\ \A k \in DOMAIN items : k \in DOMAIN items' /\ items'[k] = items[k]
              /\ (IsSome(m.code) /\ r.kind = "Ok") =>
                     LET iso_id == r.found[1].id
                     IN  /\ status' = "Running"
                         /\ iso_id \in DOMAIN items => items' = items
                         /\ iso_id \notin DOMAIN items =>
                                /\ DOMAIN items' = DOMAIN items \cup {iso_id}
                                /\ items'[iso_id] = Unwrap(m.code)
    ]_vars

\* C14's case: the second row resolved to the territory of the first, with
\* another code, and the registry still holds the first row's code.
C14_Witness ==
    /\ builder = "CallingCode"
    /\ nrows = 2
    /\ outcome = "Skip"
    /\ IsSome(Unwrap(row).code)
    /\ CallingCodeRegion(Unwrap(row)).kind = "Ok"
    /\ CallingCodeRegion(Unwrap(row)).found[1].id \in DOMAIN items
    /\ items[CallingCodeRegion(Unwrap(row)).found[1].id] # Unwrap(Unwrap(row).code)

\* What the resolver gives for the country cell of a language-zone row
ZoneRegion(m) == RegionByOpt(regions, countries, m.title, m.text)

NoDuplicates(v) == \A i, j \in 1..Len(v) : v[i] = v[j] => i = j

\* The languages a harvested name equals, ignoring case, in the short or
\* the long name
LanguagesNamed(n) ==
    {l \in DOMAIN languages :
        \/ ToLowercase(languages[l].name_short) = ToLowercase(n)
        \/ ToLowercase(languages[l].name_long) = ToLowercase(n)}

\* C15: the zone pass is idempotent per territory: processing the cells of
\* a row again, for the same territory, leaves every regions list as it is,
\* and no regions list ever holds the same Region identifier twice.
C15_ZonePassIdempotent ==
    /\ builder = "Zones" =>
           \A l \in DOMAIN languages : NoDuplicates(languages[l].regions)
    /\ (builder = "Zones" /\ IsSome(row) /\ outcome = "Merge") =>
           LET iso_id == ZoneRegion(Unwrap(row)).found[1].id
           IN  /\ ProcessTdCell(languages, Unwrap(row).official, iso_id) = languages
               /\ ProcessTdCell(languages, Unwrap(row).regional, iso_id) = languages
               /\ ZonesStep(languages, Unwrap(row)).items = languages

\* C15's case: the official and the regional cell of a row name the same
\* language, so the name was processed twice for the row's territory, and
\* the language lists the territory once.
C15_Witness ==
    /\ builder = "Zones"
    /\ IsSome(row)
    /\ outcome = "Merge"
    /\ \E n \in Unwrap(row).official \cap Unwrap(row).regional :
          \E l \in LanguagesNamed(n) :
              languages[l].regions = <<ZoneRegion(Unwrap(row)).found[1].id>>

\* C16 as claimed: after a row's cells are processed, every language whose
\* short or long name equals a harvested name, ignoring case, has the
\* row's territory in its regions list, also when several languages have
\* that name.
C16_EveryMatchingLanguage ==
    (builder = "Zones" /\ IsSome(row) /\ outcome = "Merge") =>
        \A n \in Unwrap(row).official \cup Unwrap(row).regional :
            \A l \in LanguagesNamed(n) :
                Contains(languages[l].regions, ZoneRegion(Unwrap(row)).found[1].id)

\* What the resolver gives for the country cell of a capitals row
CapitalRegion(m) == RegionByOpt(regions, countries, m.title, m.text)

\* The row made a Capital
CapitalMade ==
    builder = "Capital" /\ IsSome(row) /\ outcome = "Insert"

\* The Capital the row made
MadeCapital == items[CapitalRegion(Unwrap(row)).found[1].id]

\* Case and whitespace normalization of a name
Normalized(s) == ToLowercase(Trim(s))

\* C17 as claimed: no endonym in the endonyms list of a Capital is the
\* capital's exonym after case and whitespace normalization.
C17_EndonymExcluded ==
    builder = "Capital" =>
        \A k \in DOMAIN items :
            IsSome(items[k].endonyms) =>
                \A e \in 1..Len(Unwrap(items[k].endonyms)) :
                    Normalized(Unwrap(items[k].endonyms)[e]) # Normalized(items[k].name)

\* C18: no Capital has endonyms present but empty; the Capital of a row
\* whose endonym cell gave no span with text, or only spans whose trimmed
\* text is the capital's name, has no endonyms (None).
C18_NoEmptyEndonyms ==
    /\ builder = "Capital" =>
           \A k \in DOMAIN items :
               IsSome(items[k].endonyms) => Len(Unwrap(items[k].endonyms)) > 0
    /\ CapitalMade =>
           ((\A i \in 1..Len(Unwrap(row).spans) :
                 \/ IsNone(Unwrap(row).spans[i])
                 \/ Trim(Unwrap(Unwrap(row).spans[i])) = Unwrap(Unwrap(row).capital))
            => IsNone(MadeCapital.endonyms))

\* C18's case: every endonym harvested for a capital was excluded, and the
\* Capital made has no endonyms.
C18_Witness ==
    /\ CapitalMade
    /\ Len(Unwrap(row).spans) > 0
    /\ \A i \in 1..Len(Unwrap(row).spans) :
          /\ IsSome(Unwrap(row).spans[i])
          /\ Trim(Unwrap(Unwrap(row).spans[i])) = Unwrap(Unwrap(row).capital)
    /\ IsNone(MadeCapital.endonyms)

\* The sovereign states whose short name, whose long name, is the given
\* name in whatever case
ShortNamed(n) ==
    {k \in DOMAIN sovereign_states :
        ToLowercase(sovereign_states[k].name_short) = ToLowercase(n)}
LongNamed(n) ==
    {k \in DOMAIN sovereign_states :
        ToLowercase(sovereign_states[k].name_long) = ToLowercase(n)}

\* The row the territorial-code builder took last, once its name was read
RegionRowTaken == builder = "Region" /\ IsSome(row) /\ IsSome(Unwrap(row).name)

\* The name the policy matches for that row: the row's own display name
\* under a UN-member marker, else the text of the sovereign-state link
PolicyName ==
    IF MemberMarker(Unwrap(row).cell) THEN Unwrap(row).name
    ELSE StateRef(Unwrap(row).cell)

\* The Region the row made
MadeRegion == items[IdentifierNew(ToUppercase(Trim(Unwrap(row).a2)))]

\* C19: with a UN-member marker in the sovereignty cell the row's own
\* display name is matched and the Region is a UN member; without one the
\* text of the sovereign-state link is matched and the Region is not a UN
\* member; with neither the row is skipped.  The name is matched against
\* the short names, and against the long names only when no short name
\* matches; a name that matches nothing skips the row and the builder goes
\* on.  A Region is made only of a row whose name matched, and its
\* sovereignty is a state that matched.
C19_Disambiguation ==
    RegionRowTaken =>
        /\ (IsNone(PolicyName)
               \/ ShortNamed(Unwrap(PolicyName)) \cup LongNamed(Unwrap(PolicyName)) = {})
           => outcome = "Skip" /\ status \in {"Running", "Ok"}
        /\ outcome = "Insert" =>
               /\ IsSome(PolicyName)
               /\ MadeRegion.un_member = MemberMarker(Unwrap(row).cell)
               /\ IF ShortNamed(Unwrap(PolicyName)) # {}
                  THEN MadeRegion.sovereignity \in ShortNamed(Unwrap(PolicyName))
                  ELSE MadeRegion.sovereignity \in LongNamed(Unwrap(PolicyName))
        /\ (outcome = "Skip") <=>
               (IsNone(PolicyName)
                   \/ ShortNamed(Unwrap(PolicyName)) \cup LongNamed(Unwrap(PolicyName)) = {})

\* C19's case: the cell holds the marker and a link to a sovereign state;
\* the row's own name is the short name of another state than the one the
\* link names; the Region made is a UN member of the state of its name.
C19_Witness ==
    /\ RegionRowTaken
    /\ outcome = "Insert"
    /\ MemberMarker(Unwrap(row).cell)
    /\ IsSome(StateRef(Unwrap(row).cell))
    /\ ShortNamed(Unwrap(StateRef(Unwrap(row).cell))) # {}
    /\ ShortNamed(Unwrap(Unwrap(row).name)) # {}
    /\ ShortNamed(Unwrap(Unwrap(row).name))
           \cap ShortNamed(Unwrap(StateRef(Unwrap(row).cell))) = {}
    /\ MadeRegion.un_member
    /\ MadeRegion.sovereignity \in ShortNamed(Unwrap(Unwrap(row).name))

\* The row passed sovereignty resolution and its 2-letter code was read
PassedSovereignty(m) ==
    /\ IsSome(m.name)
    /\ IsSome(Sovereignty(m))
    /\ Len(ToUppercase(Trim(m.a2))) = 2

\* C20: no two Region entries share an Identifier: the registry is keyed by
\* the Identifier of the 2-letter code; when a row that passed sovereignty
\* resolution has a code whose Identifier is in the registry, from_html
\* ends with an error, and the registry it built is neither changed nor
\* returned.
C20_DuplicateFails ==
    [][(builder = "Region" /\ nrows' = nrows + 1) =>
          /\ \A k \in DOMAIN items : k \in DOMAIN items' /\ items'[k] = items[k]
          /\ \A k \in DOMAIN items' : IdentifierNew(items'[k].a2) = k
          /\ (PassedSovereignty(Unwrap(row'))
                 /\ IdentifierNew(ToUppercase(Trim(Unwrap(row').a2))) \in DOMAIN items) =>
                 /\ status' = "Err"
                 /\ outcome' = "Err"
                 /\ items' = items
    ]_vars

\* C20's case: the second row passed sovereignty resolution, its other
\* columns are valid, and its code is the code of the first row, a Region
\* of another name.
C20_Witness ==
    /\ builder = "Region"
    /\ nrows = 2
    /\ status = "Err"
    /\ PassedSovereignty(Unwrap(row))
    /\ IsSome(TldNew(Unwrap(row).tld))
    /\ IdentifierNew(ToUppercase(Trim(Unwrap(row).a2))) \in DOMAIN items
    /\ MadeRegion.name # Unwrap(Unwrap(row).name)

\* The registry Region::from_html returned
RegionsReturned == builder = "Region" /\ status = "Ok"

\* C21: every Region of a registry Region::from_html returned has a
\* non-empty tld list, and every element of the list is a string of 3
\* characters that starts with a dot.
C21_TldNonEmpty ==
    RegionsReturned =>
        \A k \in DOMAIN items :
            /\ items[k].tld # << >>
            /\ \A i \in 1..Len(items[k].tld) :
                  Len(items[k].tld[i]) = 3 /\ items[k].tld[i][1] = "."

\* The values of a row the territorial-code table cannot hold: a 2-letter
\* code not of length 2, a 3-letter code not of length 3, a numeric code
\* that is no number or is above 999, an ISO 3166-2 value that is not the
\* 11-character prefix and a 2-letter suffix, a required link missing
Impossible(m) ==
    \/ Len(ToUppercase(Trim(m.a2))) # 2
    \/ Len(ToUppercase(Trim(m.a3))) # 3
    \/ \E i \in 1..Len(Trim(m.num)) : Trim(m.num)[i] \notin DOMAIN DigitOf
    \/ DecimalValue(Trim(m.num)) > 999
    \/ IsNone(m.name)
    \/ IF IsNone(m.iso_3166_2) THEN TRUE
       ELSE ~(StartsWith(ToUppercase(Unwrap(m.iso_3166_2)), IsoPrefix)
                 /\ Len(Unwrap(m.iso_3166_2)) = 13)
    \/ m.tld = << >>

\* C22: a row of the territorial-code table with a structurally impossible
\* value makes Region::from_html fail as a whole, the row is not skipped;
\* every Region of a registry holds a 2-letter code of length 2, a 3-letter
\* code of length 3, a numeric code of at most 999 and an ISO 3166-2 value
\* of the prefix and 2 more characters.
C22_ImpossibleValueFails ==
    /\ (builder = "Region" /\ IsSome(row) /\ Impossible(Unwrap(row))) =>
           outcome = "Err" /\ status = "Err"
    /\ builder = "Region" =>
           \A k \in DOMAIN items :
               /\ Len(items[k].a2) = 2
               /\ Len(items[k].a3) = 3
               /\ items[k].num \in 0..999
               /\ StartsWith(items[k].iso_3166_2, IsoPrefix)
               /\ Len(items[k].iso_3166_2) = 13

\* No sovereign state is named by the name the policy matches for row m
Unresolvable(m) ==
    LET n == IF MemberMarker(m.cell) THEN m.name ELSE StateRef(m.cell)
    IN  IsNone(n) \/ ShortNamed(Unwrap(n)) \cup LongNamed(Unwrap(n)) = {}

\* C30: the sovereignity of every Region of the registry Region::from_html
\* builds is a key of the SovereignState registry the builder was given, the
\* state the policy's name names; a row whose sovereignty cannot be resolved
\* never becomes a Region: it leaves the registry as it was.
C30_SovereigntyResolves ==
    [][(builder = "Region" /\ nrows' = nrows + 1) =>
          /\ sovereign_states' = sovereign_states
          /\ \A k \in DOMAIN items' :
                items'[k].sovereignity \in DOMAIN sovereign_states
          /\ Unresolvable(Unwrap(row')) => items' = items /\ outcome' # "Insert"
          /\ outcome' = "Insert" =>
                LET m == Unwrap(row')
                    n == IF MemberMarker(m.cell) THEN m.name ELSE StateRef(m.cell)
                    made == items'[IdentifierNew(ToUppercase(Trim(m.a2)))]
                IN  made.sovereignity \in ShortNamed(Unwrap(n)) \cup LongNamed(Unwrap(n))
    ]_vars

\* C30's case: a registry that holds a Region was returned after a row
\* whose link names no state of the SovereignState registry was skipped.
C30_Witness ==
    /\ RegionsReturned
    /\ nrows = 2
    /\ outcome = "Skip"
    /\ IsSome(Unwrap(row).name)
    /\ ~MemberMarker(Unwrap(row).cell)
    /\ IsSome(StateRef(Unwrap(row).cell))
    /\ Unresolvable(Unwrap(row))
    /\ \E k \in DOMAIN items : items[k].sovereignity \in DOMAIN sovereign_states

\* C23: when the document contains tables but none of them has the th
\* count the schema requires, the scan, and with it the builder that
\* scanned (map_from_table_data(...)?), fails with an error; no empty
\* sequence of records, from which the builder would make an empty
\* registry, is returned.
C23_NoMatchingTableFails ==
    (IsSome(scanned) /\ Len(html) > 0
        /\ \A t \in 1..Len(html) : html[t].th # collect.th_count) =>
        ScanResult.kind = "Err"

\* C29: whenever region_by_opt succeeds the pair it returns is an entry
\* of the registry: the Identifier is a key of the registry and the entity
\* is the registry's value for that key, also when the match came from the
\* alias table; an Identifier of the alias table that the registry does not
\* hold is never returned; the call changes neither the registry nor the
\* alias table.
C29_ReturnsRegistryEntry ==
    [][IsSome(resolved') =>
          /\ regions' = regions
          /\ countries' = countries
          /\ Unwrap(resolved').kind = "Ok" =>
                LET t == Unwrap(Unwrap(resolved').found)
                IN  /\ t.id \in DOMAIN regions
                    /\ t.region = regions[t.id]
          /\ Unwrap(resolved').kind # "Ok" => IsNone(Unwrap(resolved').found)
    ]_vars

\* C29's case: the entity returned matched by an alias only, and the alias
\* table lists, besides, an Identifier that the registry does not hold.
C29_Witness ==
    /\ IsSome(resolved)
    /\ ReturnedOk
    /\ IsSome(countries)
    /\ IsSome(first)
    /\ ~SameName(Unwrap(first), Returned.region.name)
    /\ ~SameName(Unwrap(first), Returned.region.state_name)
    /\ Returned.id \in DOMAIN Unwrap(countries)
    /\ \E k \in 1..Len(Unwrap(countries)[Returned.id]) :
          SameName(Unwrap(first), Unwrap(countries)[Returned.id][k])
    /\ DOMAIN Unwrap(countries) \ DOMAIN regions # {}

\* v begins with u
IsPrefix(u, v) == Len(u) <= Len(v) /\ SubSeq(v, 1, Len(u)) = u

\* C28: the zone pass changes nothing but Language.regions: in every step
\* of Language::zones_from_html, whether the pass succeeds or fails, the
\* set of language keys and each language's name_short, name_long and
\* iso639 stay as they are, the region registry and the alias table stay
\* as they are, and each regions list only grows, by appended Identifiers
\* that are keys of the region registry.
C28_OnlyRegionsChange ==
    [][builder = "Zones" =>
          /\ DOMAIN languages' = DOMAIN languages
          /\ regions' = regions
          /\ countries' = countries
          /\ \A l \in DOMAIN languages :
                /\ languages'[l].name_short = languages[l].name_short
                /\ languages'[l].name_long = languages[l].name_long
                /\ languages'[l].iso639 = languages[l].iso639
                /\ IsPrefix(languages[l].regions, languages'[l].regions)
                /\ \A k \in 1..Len(languages'[l].regions) :
                      languages'[l].regions[k] \in DOMAIN regions
    ]_vars

\* C28's case: the pass ended after two rows, each of which appended a
\* territory to a language, and a row cell held a name no language has.
C28_Witness ==
    /\ builder = "Zones"
    /\ status = "Ok"
    /\ nrows = 2
    /\ \E l \in DOMAIN languages : Len(languages[l].regions) = 2
    /\ \E n \in Unwrap(row).official \cup Unwrap(row).regional : LanguagesNamed(n) = {}

\* C26: each flag download task makes attempts until one succeeds or the
\* ceiling of 5 attempts is reached, with a delay of 500 ms between
\* attempts; it reports that it failed after 5 attempts only after exactly
\* 5 attempts failed.
C26_BoundedRetry ==
    \A id \in DOMAIN handles :
        /\ handles[id].failed <= Attempts
        /\ handles[id].state = "Err" => handles[id].failed = Attempts
        /\ handles[id].state = "Ok" => handles[id].slept = DelayMs * handles[id].failed

\* C27: under every completion order of the tasks, from_html does not
\* return Ok when a task exhausted its retries; when it returns Ok every
\* task succeeded and the result holds exactly one Flag per country asked
\* for; a failure of a task that is joined makes from_html return the
\* error; once from_html has returned no task makes another attempt.
C27_FanOutJoin ==
    [][/\ (IsSome(returned') /\ Unwrap(returned') = "Ok") =>
             /\ \A id \in DOMAIN missing :
                   /\ id \in DOMAIN handles'
                   /\ handles'[id].state = "Ok"
                   /\ Cardinality({k \in 1..Len(flags') : flags'[k] = id}) = 1
             /\ Len(flags') = Cardinality(DOMAIN missing)
       /\ (IsNone(returned) /\ \E id \in DOMAIN handles :
               handles[id].state = "Err" /\ ~handles[id].joined /\ handles'[id].joined) =>
             returned' = Some("Err")
       /\ IsSome(returned) => handles' = handles /\ flags' = flags
       /\ IsSome(returned') =>
             \A id \in DOMAIN handles' : handles'[id].state \notin {"Running", "Sleeping"}
    ]_vars

\* C27's case: two tasks were spawned; the second completed first, after a
\* retry, and was joined first; from_html returned both Flags.
C27_Witness ==
    /\ returned = Some("Ok")
    /\ flags = <<2, 1>>
    /\ handles[2].failed > 0

\* The file that holds the fact type a builder stage works on
FactFile(stage) == IF stage = "language_zones" THEN "languages" ELSE stage

\* C24: when a builder stage fails, the language zone pass among them, no
\* output for its fact type is written: a registry file is only written
\* with the result of builder stages that completed.
C24_NoPartialOutput ==
    \A x \in failures :
        x.what = "Build" => output[FactFile(x.stage)] = "None"

\* C25: a transport failure while fetching any document (UN member list,
\* sovereign states, ISO 3166, flags, currencies, emojis, calling codes,
\* language codes, language zones, capitals) aborts the whole run: after it
\* no later stage runs and nothing more is written.
C25_FetchFailureAborts ==
    \A x \in failures : x.what = "Fetch" => run = "Exit"

InitFlagIdle ==
    /\ missing = << >>
    /\ handles = << >>
    /\ flags = << >>
    /\ returned = Some("Ok")

InitMainIdle ==
    /\ pc = [stage |-> 0, step |-> "Done"]
    /\ stage_registry = "Empty"
    /\ output = << >>
    /\ failures = {}
    /\ run = "Done"

NextIdent == Canonicalize \/ CanonicalizeAgain
InitOneName == InitIdent /\ InitResolveIdle /\ InitScanIdle /\ InitBuildIdle /\ InitFlagIdle /\ InitMainIdle
SpecIdent == InitOneName /\ [][NextIdent]_vars

NextIdentPair == Canonicalize \/ CanonicalizeSecond
InitTwoNames == InitIdentPair /\ InitResolveIdle /\ InitScanIdle /\ InitBuildIdle /\ InitFlagIdle /\ InitMainIdle
SpecIdentPair == InitTwoNames /\ [][NextIdentPair]_vars

NextResolve == Resolve
InitResolver == InitIdentIdle /\ InitResolve /\ InitScanIdle /\ InitBuildIdle /\ InitFlagIdle /\ InitMainIdle
SpecResolve == InitResolver /\ [][NextResolve]_vars

NextScan == Scan
InitScanner == InitIdentIdle /\ InitResolveIdle /\ InitScan /\ InitBuildIdle /\ InitFlagIdle /\ InitMainIdle
SpecScan == InitScanner /\ [][NextScan]_vars

NextBuild == ScanFails \/ BuildRow \/ ZonesRow \/ BuildEnds
InitBuilder == InitIdentIdle /\ InitScanIdle /\ InitBuild /\ InitFlagIdle /\ InitMainIdle

NextRegistry == ScanFails \/ BuildRow \/ BuildEnds
InitCurrency == InitIdentIdle /\ InitScanIdle /\ InitBuild /\ builder = "Currency" /\ InitFlagIdle /\ InitMainIdle
SpecCurrency == InitCurrency /\ [][NextRegistry]_vars

InitCallingCode == InitIdentIdle /\ InitScanIdle /\ InitBuild /\ builder = "CallingCode" /\ InitFlagIdle /\ InitMainIdle
SpecCallingCode == InitCallingCode /\ [][NextRegistry]_vars

InitCapital == InitIdentIdle /\ InitScanIdle /\ InitBuild /\ builder = "Capital" /\ InitFlagIdle /\ InitMainIdle
SpecCapital == InitCapital /\ [][NextRegistry]_vars

NextRegion == ScanFails \/ RegionRow \/ BuildEnds
InitRegion == InitIdentIdle /\ InitScanIdle /\ InitRegionBuild /\ InitFlagIdle /\ InitMainIdle
SpecRegion == InitRegion /\ [][NextRegion]_vars

NextZones == ScanFails \/ ZonesRow \/ BuildEnds
InitZones == InitIdentIdle /\ InitScanIdle /\ InitBuild /\ builder = "Zones" /\ InitFlagIdle /\ InitMainIdle
SpecZones == InitZones /\ [][NextZones]_vars
SpecBuild == InitBuilder /\ [][NextBuild]_vars

NextFlag ==
    \/ Spawn
    \/ \E id \in 1..MaxFlags : Download(id) \/ Wake(id) \/ JoinNext(id)
    \/ FlagsEnd
InitFlags == InitIdentIdle /\ InitResolveIdle /\ InitScanIdle /\ InitBuildIdle /\ InitFlag /\ InitMainIdle
SpecFlag == InitFlags /\ [][NextFlag]_vars

NextMain ==
    \/ LoadRegistry
    \/ FetchDocument
    \/ BuildRegistry
    \/ FetchZones
    \/ ZonesFromHtml
    \/ WriteRegistry
    \/ TransformFlags
InitPipeline == InitIdentIdle /\ InitResolveIdle /\ InitScanIdle /\ InitBuildIdle /\ InitFlagIdle /\ InitMain
SpecMain == InitPipeline /\ [][NextMain]_vars

====
